---- MODULE Spec2Model ----
(***************************************************************************)
(* Cutting-plan optimizers of the Woodenmax quotation generator.           *)
(*                                                                         *)
(*   QuotationManager.calculateCuttingPlan   (js/quotation.js 1788-1879)    *)
(*       first-fit-decreasing packer with a 5 mm allowance per cut, bars   *)
(*       always opened at the longest stock length;                        *)
(*   CuttingPlan                             (unnamed/part_000)            *)
(*       stateful optimizer: perfect-fit / best-fit packer without kerf,   *)
(*       one trial per configured stock length, best waste percentage.     *)
(*                                                                         *)
(* JavaScript runs one call at a time, so the packers never interleave.    *)
(* All lengths are whole millimetres.  The per-size `waste` map of the     *)
(* QuotationManager result (fractional shares of a bar's waste) is not     *)
(* represented: nothing reads it back.                                     *)
(***************************************************************************)
EXTENDS Integers, Sequences, FiniteSets, TLC

\* ------------------------------------------------------------------ bounds
MaxReqs == 2
MaxPieces == 4
MaxStock == 2
MaxBars == 5
MaxCallReqs == 1
MaxCallPieces == 2

\* ------------------------------------------------------- program constants
KerfMm == 5
DefaultStockMm == 6000

\* --------------------------------------------------------- input alphabets
ReqSizes == {1500, 3000, 6000}
StockVals == {5000, 6000}

\* ------------------------------------------------------------ seq helpers
RECURSIVE SumSeq(_)
SumSeq(s) == IF s = <<>> THEN 0 ELSE Head(s) + SumSeq(Tail(s))

RECURSIVE MaxOfSeq(_)
MaxOfSeq(s) ==
    IF Len(s) = 1 THEN s[1]
    ELSE LET m == MaxOfSeq(Tail(s)) IN IF s[1] >= m THEN s[1] ELSE m

RemoveAt(s, i) == SubSeq(s, 1, i - 1) \o SubSeq(s, i + 1, Len(s))

SeqsUpTo(S, n) == UNION {[1..k -> S] : k \in 0..n}

RECURSIVE Concat(_)
Concat(ss) == IF ss = <<>> THEN <<>> ELSE Head(ss) \o Concat(Tail(ss))

Sizes(ps) == [i \in DOMAIN ps |-> ps[i].size]

\* number of entries of s equal to x
Count(s, x) == Cardinality({i \in DOMAIN s : s[i] = x})

\* s and t hold the same elements the same number of times
SameBag(s, t) ==
    /\ Len(s) = Len(t)
    /\ \A i \in DOMAIN s : Count(s, s[i]) = Count(t, s[i])

\* Array.prototype.sort with comparator (a, b) => b.k - a.k : stable,
\* descending; keys[i] is the key of s[i], the result lists indices of s
RECURSIVE InsertDesc(_, _, _)
InsertDesc(sorted, x, keys) ==
    IF sorted = <<>> THEN <<x>>
    ELSE IF keys[Head(sorted)] >= keys[x]
         THEN <<Head(sorted)>> \o InsertDesc(Tail(sorted), x, keys)
         ELSE <<x>> \o sorted

RECURSIVE SortDescIdx(_, _)
SortDescIdx(n, keys) ==
    IF n = 0 THEN <<>> ELSE InsertDesc(SortDescIdx(n - 1, keys), n, keys)

\* variant: an unstable sort that leaves equal keys in reverse order
SortDesc_TiesReversed(s, keys) ==
    LET n == Len(s)
        idx == SortDescIdx(n, [i \in 1..n |-> keys[n + 1 - i]])
    IN  [i \in DOMAIN s |-> s[n + 1 - idx[i]]]

SortDesc(s, keys) ==
    LET idx == SortDescIdx(Len(s), keys) IN [i \in DOMAIN s |-> s[idx[i]]]

\* Array.prototype.sort with comparator (a, b) => a - b : ascending numbers
RECURSIVE InsertAsc(_, _)
InsertAsc(sorted, x) ==
    IF sorted = <<>> THEN <<x>>
    ELSE IF Head(sorted) <= x
         THEN <<Head(sorted)>> \o InsertAsc(Tail(sorted), x)
         ELSE <<x>> \o sorted

RECURSIVE SortAsc(_)
SortAsc(s) ==
    IF s = <<>> THEN <<>>
    ELSE InsertAsc(SortAsc(SubSeq(s, 1, Len(s) - 1)), s[Len(s)])

\* ======================================================================
\*  QuotationManager.calculateCuttingPlan
\* ======================================================================

\* requirement lists handed to the planner: each entry carries its
\* position as description so that instances stay distinguishable
QReqLists ==
    {[i \in DOMAIN r |->
        [sizeInMm |-> r[i][1], quantity |-> r[i][2],
         type |-> "Grill", description |-> i]] :
      r \in {x \in SeqsUpTo(ReqSizes \X (0..MaxPieces), MaxReqs) :
                SumSeq([i \in DOMAIN x |-> x[i][2]]) <= MaxPieces}}

\* stockLengths argument; <<>> stands for undefined / null / []
QStockLists == SeqsUpTo(StockVals, MaxStock)

\* variant: the requirements are taken in the caller's order
SortedReqs_Unsorted(reqs) == reqs

\* [...requirements].sort((a, b) => b.sizeInMm - a.sizeInMm)
SortedReqs(reqs) ==
    SortDesc(reqs, [i \in DOMAIN reqs |-> reqs[i].sizeInMm])

\* the pieces one requirement expands to
ExpandReq(req) ==
    [i \in 1..req.quantity |->
        [size |-> req.sizeInMm, type |-> req.type, description |-> req.description]]

\* allPieces after the forEach over sortedReqs
QExpand(reqs) ==
    LET sr == SortedReqs(reqs)
    IN  Concat([i \in DOMAIN sr |-> ExpandReq(sr[i])])

\* stockUsage after the forEach: one zero per requirement size
QInitUsage(reqs) ==
    [s \in {reqs[i].sizeInMm : i \in DOMAIN reqs} |-> 0]

\* variant: another fallback length
QEffectiveStock_Fallback5000(sl) == IF sl = <<>> THEN <<5000>> ELSE sl

\* if (!stockLengths || stockLengths.length === 0) stockLengths = [6000]
QEffectiveStock(sl) == IF sl = <<>> THEN <<DefaultStockMm>> ELSE sl

\* variant: the first configured length instead of the largest
QPickStockLength_First(sl) == sl[1]

\* Math.max(...stockLengths)
QPickStockLength(sl) == MaxOfSeq(sl)

QNewStockPiece(sl) ==
    [length |-> QPickStockLength(sl), remaining |-> QPickStockLength(sl),
     used |-> 0, cuts |-> <<>>]

\* variant: the fit test forgets the cut allowance
QFits_NoKerf(piece, sp) == piece.size <= sp.remaining

\* piece.size + 5 <= stockPiece.remaining
QFits(piece, sp) == piece.size + KerfMm <= sp.remaining

\* variant: the scan keeps the last piece that fits
QFirstFit_LastFit(pieces, sp) ==
    IF \E i \in DOMAIN pieces : QFits(pieces[i], sp)
    THEN CHOOSE i \in DOMAIN pieces :
            /\ QFits(pieces[i], sp)
            /\ \A j \in (i + 1)..Len(pieces) : ~QFits(pieces[j], sp)
    ELSE 0

\* variant: only the first waiting piece is tried
QFirstFit_HeadOnly(pieces, sp) ==
    IF pieces # <<>> /\ QFits(pieces[1], sp) THEN 1 ELSE 0

\* index at which the for loop breaks, 0 when it runs to the end
QFirstFit(pieces, sp) ==
    IF \E i \in DOMAIN pieces : QFits(pieces[i], sp)
    THEN CHOOSE i \in DOMAIN pieces :
            /\ QFits(pieces[i], sp)
            /\ \A j \in 1..(i - 1) : ~QFits(pieces[j], sp)
    ELSE 0

\* variant: the cut is put in front of the earlier ones
QPlaceInto_Unshift(sp, piece) ==
    [sp EXCEPT !.cuts = <<piece>> \o @,
               !.used = @ + piece.size,
               !.remaining = @ - (piece.size + KerfMm)]

\* variant: the placement forgets to charge the cut allowance
QPlaceInto_NoKerf(sp, piece) ==
    [sp EXCEPT !.cuts = Append(@, piece),
               !.used = @ + piece.size,
               !.remaining = @ - piece.size]

\* body of the if at 1843-1847
QPlaceInto(sp, piece) ==
    [sp EXCEPT !.cuts = Append(@, piece),
               !.used = @ + piece.size,
               !.remaining = @ - (piece.size + KerfMm)]

\* variant: waste recomputed as length minus used length
QSealed_LengthMinusUsed(sp) ==
    [length |-> sp.length, remaining |-> sp.remaining, used |-> sp.used,
     cuts |-> sp.cuts, waste |-> sp.length - sp.used]

\* stockPiece.waste = stockPiece.remaining
QSealed(sp) ==
    [length |-> sp.length, remaining |-> sp.remaining, used |-> sp.used,
     cuts |-> sp.cuts, waste |-> sp.remaining]

\* while (pieceAdded) run to its end: the filled bar and what is left over
RECURSIVE QFillStock(_, _)
QFillStock(sp, pcs) ==
    LET i == QFirstFit(pcs, sp)
    IN  IF i = 0 THEN [stockPiece |-> sp, allPieces |-> pcs]
        ELSE QFillStock(QPlaceInto(sp, pcs[i]), RemoveAt(pcs, i))

\* the outer while.  A fresh bar that takes no piece leaves allPieces as
\* it was, so every later round repeats it and the call never returns.
RECURSIVE QPackAll(_, _, _)
QPackAll(pcs, sl, done) ==
    IF pcs = <<>> THEN [returns |-> TRUE, stockPieces |-> done]
    ELSE LET f == QFillStock(QNewStockPiece(sl), pcs)
         IN  IF f.stockPiece.cuts = <<>>
             THEN [returns |-> FALSE, stockPieces |-> <<>>]
             ELSE QPackAll(f.allPieces, sl, Append(done, QSealed(f.stockPiece)))

\* QuotationManager.calculateCuttingPlan(requirements, stockLengths) as a
\* whole: whether it returns, and the stockPieces of its result
QCalculateCuttingPlan(reqs, sl) ==
    QPackAll(QExpand(reqs), QEffectiveStock(sl), <<>>)

\* sum of stockPiece.waste over the bars of a plan
QSumWaste(sps) == SumSeq([i \in DOMAIN sps |-> sps[i].waste])

\* exportToPDF, "Calculate stock usage for this dimension": the totals
\* printed for one material section from the plan of that section
QExportTotals(sps) ==
    LET totalLengthUsed == SumSeq([i \in DOMAIN sps |-> sps[i].used])
        totalLengthAvailable == SumSeq([i \in DOMAIN sps |-> sps[i].length])
    IN  [totalStockPieces |-> Len(sps),
         totalLengthUsed |-> totalLengthUsed,
         totalLengthAvailable |-> totalLengthAvailable,
         totalWaste |-> totalLengthAvailable - totalLengthUsed]

QNoStockPiece == [length |-> 0, remaining |-> 0, used |-> 0, cuts |-> <<>>]

\* ======================================================================
\*  CuttingPlan
\* ======================================================================

\* A percentage (x / y) * 100 is kept as the reduced fraction x / y;
\* 0 / 0 is NaN, a field never assigned is undefined.
RECURSIVE GCD(_, _)
GCD(a, b) == IF b = 0 THEN a ELSE GCD(b, a % b)

PctNaN == [kind |-> "NaN", n |-> 0, d |-> 0]
PctUndefined == [kind |-> "undefined", n |-> 0, d |-> 0]
PctZero == [kind |-> "num", n |-> 0, d |-> 1]

\* (x / y) * 100 for x >= 0, y >= 0
Pct(x, y) ==
    IF y = 0 THEN PctNaN
    ELSE LET g == GCD(x, y) IN [kind |-> "num", n |-> x \div g, d |-> y \div g]

\* a < b on numbers; every comparison with NaN is false
PctLess(a, b) ==
    /\ a.kind = "num"
    /\ b.kind = "num"
    /\ a.n * b.d < b.n * a.d

\* unitConversions.mm restricted to the units with whole factors
UnitFactor == [mm |-> 1, cm |-> 10, m |-> 1000]

\* utils.convertLength(value, fromUnit, toUnit)
convertLength(value, fromUnit, toUnit) ==
    IF value = 0 THEN 0
    ELSE (value * UnitFactor[fromUnit]) \div UnitFactor[toUnit]

\* CuttingPlan.convertToMm
convertToMm(length, unit) == convertLength(length, unit, "mm")

\* this.stockLength holds a number or an array of numbers:
\* [arr |-> FALSE, vals |-> <<n>>] is the number n, [arr |-> TRUE, ...] an array
NumLength(n) == [arr |-> FALSE, vals |-> <<n>>]
ArrLength(v) == [arr |-> TRUE, vals |-> v]

\* pieceSize > this.stockLength.  An array operand is converted through its
\* string form: a one-element array compares as its element, a longer one
\* is NaN and the comparison is false.
LargerThanStock(pieceSize, stockLength) ==
    IF stockLength.arr
    THEN Len(stockLength.vals) = 1 /\ pieceSize > stockLength.vals[1]
    ELSE pieceSize > stockLength.vals[1]

\* the guard at line 67
InvalidPiece(piece) == piece.size <= 0 \/ piece.quantity <= 0

\* what one entry of `pieces` pushes onto allPieces (lines 66-90)
ExpandPiece(piece, stockLength, convertUnits) ==
    LET pieceSize == IF convertUnits THEN convertToMm(piece.size, piece.unit)
                     ELSE piece.size
    IN  IF InvalidPiece(piece) THEN <<>>
        ELSE IF LargerThanStock(pieceSize, stockLength) THEN <<>>
        ELSE [i \in 1..piece.quantity |->
                [originalSize |-> piece.size, originalUnit |-> piece.unit,
                 size |-> pieceSize,
                 id |-> <<IF piece.id = "" THEN "piece" ELSE piece.id, i>>]]

\* allPieces after the forEach and the descending sort (lines 65-93)
ExpandPieces(pieces, stockLength, convertUnits) ==
    LET all == Concat([i \in DOMAIN pieces |->
                        ExpandPiece(pieces[i], stockLength, convertUnits)])
    IN  SortDesc(all, Sizes(all))

\* the stock lengths to try (lines 96-98)
TrialLengths(stockLength) ==
    IF stockLength.arr THEN SortAsc(stockLength.vals) ELSE stockLength.vals

\* variant: the last index whose size equals the space
findPerfectFit_LastMatch(pieces, remainingSpace) ==
    IF \E i \in DOMAIN pieces : pieces[i].size = remainingSpace
    THEN CHOOSE i \in DOMAIN pieces :
            /\ pieces[i].size = remainingSpace
            /\ \A j \in (i + 1)..Len(pieces) : pieces[j].size # remainingSpace
    ELSE 0

\* findPerfectFit: first index whose size equals the space, 0 for -1
findPerfectFit(pieces, remainingSpace) ==
    IF \E i \in DOMAIN pieces : pieces[i].size = remainingSpace
    THEN CHOOSE i \in DOMAIN pieces :
            /\ pieces[i].size = remainingSpace
            /\ \A j \in 1..(i - 1) : pieces[j].size # remainingSpace
    ELSE 0

\* the for loop of findBestFit from index i on
RECURSIVE BestFitScan(_, _, _, _, _)
BestFitScan(pieces, remainingSpace, i, bestFitIndex, bestFitSize) ==
    IF i > Len(pieces) THEN bestFitIndex
    ELSE IF pieces[i].size <= remainingSpace /\ pieces[i].size > bestFitSize
         THEN BestFitScan(pieces, remainingSpace, i + 1, i, pieces[i].size)
         ELSE BestFitScan(pieces, remainingSpace, i + 1, bestFitIndex, bestFitSize)

\* variant: the last piece that fits, whatever its size
findBestFit_LastFit(pieces, remainingSpace) ==
    IF \E i \in DOMAIN pieces : pieces[i].size <= remainingSpace
    THEN CHOOSE i \in DOMAIN pieces :
            /\ pieces[i].size <= remainingSpace
            /\ \A j \in (i + 1)..Len(pieces) : pieces[j].size > remainingSpace
    ELSE 0

\* findBestFit: index of the largest piece that fits, 0 for -1
findBestFit(pieces, remainingSpace) == BestFitScan(pieces, remainingSpace, 1, 0, 0)

NewStock(stockLength) ==
    [stockLength |-> stockLength, remaining |-> stockLength, pieces |-> <<>>]

\* variant: the piece is put in front of the earlier ones
PutPiece_Unshift(stock, piece) ==
    [stock EXCEPT !.pieces = <<piece>> \o @, !.remaining = @ - piece.size]

\* stock.pieces.push(p); stock.remaining -= p.size
PutPiece(stock, piece) ==
    [stock EXCEPT !.pieces = Append(@, piece), !.remaining = @ - piece.size]

\* index the current round of while (improved) takes, 0 when it takes none
FillChoice(remaining, stock) ==
    IF findPerfectFit(remaining, stock.remaining) # 0
    THEN findPerfectFit(remaining, stock.remaining)
    ELSE findBestFit(remaining, stock.remaining)

\* while (improved) run to its end: the filled bar and what is left over
RECURSIVE FillStock(_, _)
FillStock(stock, remaining) ==
    LET i == FillChoice(remaining, stock)
    IN  IF i = 0 THEN [stock |-> stock, remaining |-> remaining]
        ELSE FillStock(PutPiece(stock, remaining[i]), RemoveAt(remaining, i))

\* the totals computed at lines 194-196
SolutionOf(bars, stockLength) ==
    LET totalWastage == SumSeq([i \in DOMAIN bars |-> bars[i].remaining])
    IN  [returns |-> TRUE,
         stockPieces |-> bars,
         stockUsed |-> Len(bars),
         totalWastage |-> totalWastage,
         wastagePercentage |-> Pct(totalWastage, Len(bars) * stockLength)]

\* a call that never comes back
NoReturn ==
    [returns |-> FALSE, stockPieces |-> <<>>, stockUsed |-> 0,
     totalWastage |-> 0, wastagePercentage |-> PctUndefined]

\* the outer while of calculateSolutionForStockLength.  A fresh bar that
\* takes no piece leaves remainingPieces as it was, so every later round
\* repeats it: the loop pushes empty bars for ever.
RECURSIVE PackAll(_, _, _)
PackAll(remaining, stockLength, bars) ==
    IF remaining = <<>> THEN SolutionOf(bars, stockLength)
    ELSE LET f == FillStock(NewStock(stockLength), remaining)
         IN  IF f.stock.pieces = <<>> THEN NoReturn
             ELSE PackAll(f.remaining, stockLength, Append(bars, f.stock))

calculateSolutionForStockLength(pieces, stockLength) ==
    PackAll(pieces, stockLength, <<>>)

\* ---------------------------------------------------- the instance

\* new CuttingPlan(stockLength = 6000); wastagePercentage is not assigned
NewCuttingPlan(stockLength) ==
    [stockLength |-> NumLength(stockLength), wastage |-> 0, totalWastage |-> 0,
     stockUsed |-> 0, cuts |-> <<>>, stockPieces |-> <<>>,
     wastagePercentage |-> PctUndefined]

\* "Reset previous results" (lines 49-53)
ResetResults(self) ==
    [self EXCEPT !.wastage = 0, !.totalWastage = 0, !.stockUsed = 0,
                 !.cuts = <<>>, !.stockPieces = <<>>]

\* the literal returned at lines 56-61
EmptyPlan ==
    [cuts |-> <<>>, stockUsed |-> 0, totalWastage |-> 0,
     wastagePercentage |-> PctZero]

\* solutions = stockLengths.map(...)
Solutions(allPcs, stockLength) ==
    LET tl == TrialLengths(stockLength)
    IN  [k \in DOMAIN tl |-> calculateSolutionForStockLength(allPcs, tl[k])]

\* solutions.reduce((best, current) => current.wp < best.wp ? current : best,
\*                  solutions[0]) from index k on
RECURSIVE ReduceBest(_, _, _)
ReduceBest(solutions, k, best) ==
    IF k > Len(solutions) THEN best
    ELSE ReduceBest(solutions, k + 1,
            IF PctLess(solutions[k].wastagePercentage, best.wastagePercentage)
            THEN solutions[k] ELSE best)

BestSolution(solutions) == ReduceBest(solutions, 1, solutions[1])

\* variant: a percentage already on the instance is kept
AdoptSolution_KeepPct(self, best) ==
    [self EXCEPT !.stockPieces = best.stockPieces,
                 !.stockUsed = best.stockUsed,
                 !.totalWastage = best.totalWastage,
                 !.wastagePercentage =
                     IF @.kind = "num" THEN @ ELSE best.wastagePercentage]

\* lines 111-114
AdoptSolution(self, best) ==
    [self EXCEPT !.stockPieces = best.stockPieces,
                 !.stockUsed = best.stockUsed,
                 !.totalWastage = best.totalWastage,
                 !.wastagePercentage = best.wastagePercentage]

\* this.cuts = this.stockPieces.map(...) (lines 117-129)
FormatCuts(self) ==
    [self EXCEPT !.cuts =
        [k \in DOMAIN self.stockPieces |->
            LET st == self.stockPieces[k]
            IN  [stockNumber |-> k,
                 stockLength |-> st.stockLength,
                 pieces |-> [j \in DOMAIN st.pieces |->
                                [size |-> st.pieces[j].originalSize,
                                 unit |-> st.pieces[j].originalUnit,
                                 sizeInMm |-> st.pieces[j].size]],
                 wastage |-> st.remaining,
                 wastagePercentage |-> Pct(st.remaining, st.stockLength)]]]

\* the object returned at lines 131-136
PlanResult(self) ==
    [cuts |-> self.cuts, stockUsed |-> self.stockUsed,
     totalWastage |-> self.totalWastage,
     wastagePercentage |-> self.wastagePercentage]

\* the returned object has no member listing skipped pieces
UnplaceableOf(result) == <<>>

NoResult ==
    [cuts |-> <<>>, stockUsed |-> 0, totalWastage |-> 0,
     wastagePercentage |-> PctUndefined]

\* calculateCuttingPlan(pieces, convertUnits) on instance self:
\* the instance afterwards, whether the call came back, and its result
calculateCuttingPlan(self, pieces, convertUnits) ==
    LET s0 == ResetResults(self)
        allPcs == ExpandPieces(pieces, s0.stockLength, convertUnits)
        sols == Solutions(allPcs, s0.stockLength)
        s1 == FormatCuts(AdoptSolution(s0, BestSolution(sols)))
    IN  IF pieces = <<>>
        THEN [self |-> s0, returns |-> TRUE, result |-> EmptyPlan]
        ELSE IF \E k \in DOMAIN sols : ~sols[k].returns
        THEN [self |-> s0, returns |-> FALSE, result |-> NoResult]
        ELSE [self |-> s1, returns |-> TRUE, result |-> PlanResult(s1)]

\* setStockLength(length): the new stockLength, or "throws"
setStockLength(self, length) ==
    IF length <= 0 THEN [throws |-> TRUE, self |-> self]
    ELSE [throws |-> FALSE, self |-> [self EXCEPT !.stockLength = NumLength(length)]]

\* lengths.filter(length => length > 0)
RECURSIVE ValidLengths(_)
ValidLengths(lengths) ==
    IF lengths = <<>> THEN <<>>
    ELSE (IF Head(lengths) > 0 THEN <<Head(lengths)>> ELSE <<>>)
            \o ValidLengths(Tail(lengths))

\* variant: the list is stored as given once it has a positive entry
setStockLengthsArray_KeepAll(self, lengths) ==
    IF ValidLengths(lengths) = <<>> THEN [throws |-> TRUE, self |-> self]
    ELSE [throws |-> FALSE, self |-> [self EXCEPT !.stockLength = ArrLength(lengths)]]

\* setStockLengths(lengths) with an array argument
setStockLengthsArray(self, lengths) ==
    IF ValidLengths(lengths) = <<>> THEN [throws |-> TRUE, self |-> self]
    ELSE [throws |-> FALSE,
          self |-> [self EXCEPT !.stockLength = ArrLength(ValidLengths(lengths))]]

\* setStockLengths(lengths) with a number argument
setStockLengthsNumber(self, length) ==
    IF length > 0
    THEN [throws |-> FALSE, self |-> [self EXCEPT !.stockLength = NumLength(length)]]
    ELSE [throws |-> TRUE, self |-> self]

\* ------------------------------------------------------------ CP inputs

\* the kinds of entries callers put in `pieces`: an empty id stands for a
\* missing one
PieceKinds ==
    { [size |-> 0, unit |-> "mm", id |-> ""],
      [size |-> 1500, unit |-> "mm", id |-> "r2"],
      [size |-> 300, unit |-> "cm", id |-> "r1"],
      [size |-> 3000, unit |-> "mm", id |-> "r3"],
      [size |-> 6000, unit |-> "mm", id |-> ""] }

PieceEntries(maxTotal) ==
    {[size |-> k.size, unit |-> k.unit, id |-> k.id, quantity |-> q] :
        k \in PieceKinds, q \in 0..maxTotal}

PieceLists(maxLen, maxTotal) ==
    {r \in SeqsUpTo(PieceEntries(maxTotal), maxLen) :
        SumSeq([i \in DOMAIN r |-> r[i].quantity]) <= maxTotal}

\* arguments of the stepwise packer runs
FillPieceLists == PieceLists(MaxReqs, MaxPieces)

\* arguments of calls on the shared instance
CallPieceLists ==
    {r \in PieceLists(MaxCallReqs, MaxCallPieces) :
        \A i \in DOMAIN r : r[i].size \notin {1500, 3000}}

\* values this.stockLength can hold after the constructor and the setters
StockConfigs ==
    {NumLength(n) : n \in StockVals}
        \cup {ArrLength(v) : v \in SeqsUpTo(StockVals, MaxStock) \ {<<>>}}

\* arguments handed to the setters
SetterNumbers == {0} \cup StockVals
SetterArrays ==
    { <<>>, <<0>>, <<5000>>, <<0, 6000>>, <<5000, 6000>>, <<6000, 5000>>,
      <<5000, 5000>>, <<6000, 6000>>, <<5000, 0, 6000>> }

\* ======================================================================
\*  QuotationManager: the stock-length controls
\* ======================================================================

\* texts a user leaves in the fields #stockLength and #newStockLength
StockLengthTexts == {"", "abc", "0", "-5", "0.3", "5000"}
NewLengthTexts == {"", "abc", "-5", "0.3", "6"}
LengthUnits == {"mm", "m", "ft"}

\* a JavaScript number: an integer or NaN
JsNum(n) == [kind |-> "num", n |-> n]
JsNaN == [kind |-> "NaN", n |-> 0]

\* parseInt(text) and parseInt(text, 10) on the texts above
parseInt(text) ==
    CASE text = "0" -> JsNum(0)
      [] text = "-5" -> JsNum(-5)
      [] text = "0.3" -> JsNum(0)
      [] text = "6" -> JsNum(6)
      [] text = "5000" -> JsNum(5000)
      [] text = "6000" -> JsNum(6000)
      [] OTHER -> JsNaN

\* parseFloat(text) on the texts above, counted in tenths
parseFloat(text) ==
    CASE text = "0" -> JsNum(0)
      [] text = "-5" -> JsNum(-50)
      [] text = "0.3" -> JsNum(3)
      [] text = "6" -> JsNum(60)
      [] text = "5000" -> JsNum(50000)
      [] OTHER -> JsNaN

\* Math.round of a positive number given in hundredths
MathRound(hundredths) == (hundredths + 50) \div 100

\* lengthInMm of addStockLength for a length in tenths of the unit:
\* times 1000 for m, times 304.8 for ft, then rounded
LengthInMm(tenths, unit) ==
    MathRound(CASE unit = "m" -> tenths * 10000
                [] unit = "ft" -> tenths * 3048
                [] OTHER -> tenths * 10)

\* the guard !length || isNaN(length) || length <= 0
InvalidLength(length) == length.kind = "NaN" \/ length.n <= 0

\* this.stockLengths.includes(x)
Includes(list, x) == \E i \in DOMAIN list : list[i] = x

\* this.stockLengths.filter(item => item !== length)
RECURSIVE FilterOut(_, _)
FilterOut(list, length) ==
    IF list = <<>> THEN <<>>
    ELSE (IF Head(list) # length THEN <<Head(list)>> ELSE <<>>)
            \o FilterOut(Tail(list), length)

\* renderStockLengths: this.stockLengths.sort((a, b) => a - b)
renderStockLengths(list) == SortAsc(list)

\* the change handler of #useMultipleStockLengths with the box now
\* `checked`: the list afterwards
ToggleStockLengths(list, checked, stockLengthText) ==
    IF checked /\ Len(list) = 0
    THEN LET parsed == parseInt(stockLengthText)
             defaultLength == IF parsed.kind = "NaN" \/ parsed.n = 0
                              THEN DefaultStockMm ELSE parsed.n
         IN  renderStockLengths(Append(list, defaultLength))
    ELSE list

\* variant: a length is pushed without looking for it in the list
addStockLength_NoLookup(list, text, unit) ==
    LET length == parseFloat(text)
    IN  IF InvalidLength(length)
        THEN [stockLengths |-> list, value |-> text]
        ELSE [stockLengths |->
                renderStockLengths(Append(list, LengthInMm(length.n, unit))),
              value |-> ""]

\* addStockLength(): this.stockLengths and the text of #newStockLength
\* afterwards
addStockLength(list, text, unit) ==
    LET length == parseFloat(text)
    IN  IF InvalidLength(length)
        THEN [stockLengths |-> list, value |-> text]
        ELSE IF Includes(list, LengthInMm(length.n, unit))
        THEN [stockLengths |-> list, value |-> text]
        ELSE [stockLengths |->
                renderStockLengths(Append(list, LengthInMm(length.n, unit))),
              value |-> ""]

\* removeStockLength(length)
removeStockLength(list, length) == renderStockLengths(FilterOut(list, length))

\* exportToPDF: the stockLengths it hands to calculateCuttingPlan
ExportStockLengths(checked, list, stockLengthText) ==
    IF checked /\ Len(list) > 0
    THEN [i \in DOMAIN list |-> JsNum(list[i])]
    ELSE <<parseInt(IF stockLengthText = "" THEN "6000" ELSE stockLengthText)>>

VARIABLES
    \* QuotationManager.calculateCuttingPlan, one call
    qpc,            \* position in the call
    requirements,   \* the caller's requirement list (argument)
    qArgStock,      \* the stockLengths argument as passed
    stockLengths,   \* stockLengths after the default is applied
    allPieces,      \* pieces still to be placed
    stockPiece,     \* the bar being filled
    stockPieces,    \* sealed bars
    stockUsage,     \* pieces placed per size
    \* CuttingPlan.calculateSolutionForStockLength, one call
    cpc,            \* position in the call
    inputPieces,    \* the `pieces` argument of the calling calculateCuttingPlan
    pieces,         \* argument: the expanded, sorted piece list
    stockLength,    \* argument: the stock length of this trial
    remainingPieces,
    stock,          \* the bar being filled
    bars,           \* the local stockPieces
    solution,       \* the returned object
    \* the shared instance window.cuttingPlan and the last call on it
    cuttingPlan,
    callStatus,     \* "none", "returned", "hung", "threw"
    callArg,
    callResult,
    \* the QuotationManager and its stock-length controls
    managerStockLengths,        \* this.stockLengths
    useMultipleStockLengths,    \* the checkbox is checked
    newStockLength              \* text in the field #newStockLength

qvars == <<qpc, requirements, qArgStock, stockLengths, allPieces,
           stockPiece, stockPieces, stockUsage>>

fvars == <<cpc, inputPieces, pieces, stockLength, remainingPieces, stock, bars,
           solution>>

ivars == <<cuttingPlan, callStatus, callArg, callResult>>

uvars == <<managerStockLengths, useMultipleStockLengths, newStockLength>>

vars == <<qpc, requirements, qArgStock, stockLengths, allPieces,
          stockPiece, stockPieces, stockUsage,
          cpc, inputPieces, pieces, stockLength, remainingPieces, stock, bars,
          solution,
          cuttingPlan, callStatus, callArg, callResult,
          managerStockLengths, useMultipleStockLengths, newStockLength>>

NoArg == [pieces |-> <<>>, convertUnits |-> TRUE]

Init ==
    /\ qpc = "idle"
    /\ requirements = <<>>
    /\ qArgStock = <<>>
    /\ stockLengths = <<>>
    /\ allPieces = <<>>
    /\ stockPiece = QNoStockPiece
    /\ stockPieces = <<>>
    /\ stockUsage = <<>>
    /\ cpc = "idle"
    /\ inputPieces = <<>>
    /\ pieces = <<>>
    /\ stockLength = 0
    /\ remainingPieces = <<>>
    /\ stock = NewStock(0)
    /\ bars = <<>>
    /\ solution = NoReturn
    /\ cuttingPlan = NewCuttingPlan(DefaultStockMm)
    /\ callStatus = "none"
    /\ callArg = NoArg
    /\ callResult = NoResult
    /\ managerStockLengths = <<>>
    /\ useMultipleStockLengths = FALSE
    /\ newStockLength = ""

\* ------------------------------ QuotationManager.calculateCuttingPlan

\* entry up to the head of the outer while
QCall(reqs, sl) ==
    /\ qpc = "idle"
    /\ cpc = "idle"
    /\ qpc' = "loop"
    /\ requirements' = reqs
    /\ qArgStock' = sl
    /\ stockLengths' = QEffectiveStock(sl)
    /\ allPieces' = QExpand(reqs)
    /\ stockPiece' = QNoStockPiece
    /\ stockPieces' = <<>>
    /\ stockUsage' = QInitUsage(reqs)
    /\ UNCHANGED <<fvars, ivars, uvars>>

\* while (allPieces.length > 0): open a bar
QOpenBar ==
    /\ qpc = "loop"
    /\ allPieces # <<>>
    /\ Len(stockPieces) < MaxBars
    /\ qpc' = "fill"
    /\ stockPiece' = QNewStockPiece(stockLengths)
    /\ UNCHANGED <<requirements, qArgStock, stockLengths, allPieces,
                   stockPieces, stockUsage, fvars, ivars, uvars>>

\* one round of while (pieceAdded) in which the for loop finds a piece
QPlacePiece ==
    /\ qpc = "fill"
    /\ QFirstFit(allPieces, stockPiece) # 0
    /\ LET i == QFirstFit(allPieces, stockPiece)
           piece == allPieces[i]
       IN  /\ stockPiece' = QPlaceInto(stockPiece, piece)
           /\ stockUsage' = [stockUsage EXCEPT ![piece.size] = @ + 1]
           /\ allPieces' = RemoveAt(allPieces, i)
    /\ UNCHANGED <<qpc, requirements, qArgStock, stockLengths, stockPieces,
                   fvars, ivars, uvars>>

\* the round in which nothing fits: waste is set and the bar is pushed
QSealBar ==
    /\ qpc = "fill"
    /\ QFirstFit(allPieces, stockPiece) = 0
    /\ qpc' = "loop"
    /\ stockPieces' = Append(stockPieces, QSealed(stockPiece))
    /\ stockPiece' = QNoStockPiece
    /\ UNCHANGED <<requirements, qArgStock, stockLengths, allPieces,
                   stockUsage, fvars, ivars, uvars>>

\* allPieces is empty: return { stockPieces, waste, stockUsage }
QReturn ==
    /\ qpc = "loop"
    /\ allPieces = <<>>
    /\ qpc' = "returned"
    /\ UNCHANGED <<requirements, qArgStock, stockLengths, allPieces,
                   stockPiece, stockPieces, stockUsage, fvars, ivars, uvars>>

QNext ==
    \/ /\ qpc = "idle"
       /\ cpc = "idle"
       /\ \E reqs \in QReqLists, sl \in QStockLists : QCall(reqs, sl)
    \/ QOpenBar
    \/ QPlacePiece
    \/ QSealBar
    \/ QReturn

\* -------------------- CuttingPlan.calculateSolutionForStockLength

\* variant: the trials share one list, so that a trial after the first
\* finds it already emptied
SolveCall_SharedList(input, cfg, convertUnits, k) ==
    /\ cpc = "idle"
    /\ qpc = "idle"
    /\ input # <<>>
    /\ cpc' = "loop"
    /\ inputPieces' = input
    /\ pieces' = ExpandPieces(input, cfg, convertUnits)
    /\ stockLength' = TrialLengths(cfg)[k]
    /\ remainingPieces' = IF k = 1 THEN pieces' ELSE <<>>
    /\ stock' = NewStock(0)
    /\ bars' = <<>>
    /\ solution' = NoReturn
    /\ UNCHANGED <<qvars, ivars, uvars>>

\* called from calculateCuttingPlan(input, convertUnits) on an instance
\* whose stockLength is cfg, for the k-th length to try
SolveCall(input, cfg, convertUnits, k) ==
    /\ cpc = "idle"
    /\ qpc = "idle"
    /\ input # <<>>
    /\ cpc' = "loop"
    /\ inputPieces' = input
    /\ pieces' = ExpandPieces(input, cfg, convertUnits)
    /\ stockLength' = TrialLengths(cfg)[k]
    /\ remainingPieces' = pieces'
    /\ stock' = NewStock(0)
    /\ bars' = <<>>
    /\ solution' = NoReturn
    /\ UNCHANGED <<qvars, ivars, uvars>>

\* while (remainingPieces.length > 0): create a new stock
SolveOpenStock ==
    /\ cpc = "loop"
    /\ remainingPieces # <<>>
    /\ Len(bars) < MaxBars
    /\ cpc' = "fill"
    /\ stock' = NewStock(stockLength)
    /\ UNCHANGED <<inputPieces, pieces, stockLength, remainingPieces, bars, solution,
                   qvars, ivars, uvars>>

\* a round of while (improved) that takes the perfect fit
SolvePlacePerfect ==
    /\ cpc = "fill"
    /\ findPerfectFit(remainingPieces, stock.remaining) # 0
    /\ LET i == findPerfectFit(remainingPieces, stock.remaining)
       IN  /\ stock' = PutPiece(stock, remainingPieces[i])
           /\ remainingPieces' = RemoveAt(remainingPieces, i)
    /\ UNCHANGED <<cpc, inputPieces, pieces, stockLength, bars, solution, qvars, ivars, uvars>>

\* a round of while (improved) that takes the best fit
SolvePlaceBest ==
    /\ cpc = "fill"
    /\ findPerfectFit(remainingPieces, stock.remaining) = 0
    /\ findBestFit(remainingPieces, stock.remaining) # 0
    /\ LET i == findBestFit(remainingPieces, stock.remaining)
       IN  /\ stock' = PutPiece(stock, remainingPieces[i])
           /\ remainingPieces' = RemoveAt(remainingPieces, i)
    /\ UNCHANGED <<cpc, inputPieces, pieces, stockLength, bars, solution, qvars, ivars, uvars>>

\* the round that improves nothing: the stock is pushed
SolvePushStock ==
    /\ cpc = "fill"
    /\ findPerfectFit(remainingPieces, stock.remaining) = 0
    /\ findBestFit(remainingPieces, stock.remaining) = 0
    /\ cpc' = "loop"
    /\ bars' = Append(bars, stock)
    /\ stock' = NewStock(0)
    /\ UNCHANGED <<inputPieces, pieces, stockLength, remainingPieces, solution, qvars, ivars, uvars>>

\* remainingPieces is empty: totals and return
SolveReturn ==
    /\ cpc = "loop"
    /\ remainingPieces = <<>>
    /\ cpc' = "returned"
    /\ solution' = SolutionOf(bars, stockLength)
    /\ UNCHANGED <<inputPieces, pieces, stockLength, remainingPieces, stock, bars,
                   qvars, ivars, uvars>>

SolveNext ==
    \/ /\ cpc = "idle"
       /\ qpc = "idle"
       /\ \E input \in FillPieceLists, cfg \in StockConfigs,
             convertUnits \in BOOLEAN, k \in 1..MaxStock :
               /\ k <= Len(cfg.vals)
               /\ SolveCall(input, cfg, convertUnits, k)
    \/ SolveOpenStock
    \/ SolvePlacePerfect
    \/ SolvePlaceBest
    \/ SolvePushStock
    \/ SolveReturn

\* ----------------------------------------- calls on window.cuttingPlan

Alive == callStatus # "hung"

CallCalculate(input, convertUnits) ==
    /\ Alive
    /\ LET r == calculateCuttingPlan(cuttingPlan, input, convertUnits)
       IN  /\ cuttingPlan' = r.self
           /\ callStatus' = IF r.returns THEN "returned" ELSE "hung"
           /\ callResult' = r.result
    /\ callArg' = [pieces |-> input, convertUnits |-> convertUnits]
    /\ UNCHANGED <<qvars, fvars, uvars>>

Setter(r) ==
    /\ Alive
    /\ cuttingPlan' = r.self
    /\ callStatus' = IF r.throws THEN "threw" ELSE "set"
    /\ callArg' = NoArg
    /\ callResult' = NoResult
    /\ UNCHANGED <<qvars, fvars, uvars>>

CallSetStockLength(length) == Setter(setStockLength(cuttingPlan, length))

CallSetStockLengthsArray(lengths) ==
    Setter(setStockLengthsArray(cuttingPlan, lengths))

CallSetStockLengthsNumber(length) ==
    Setter(setStockLengthsNumber(cuttingPlan, length))

InstanceNext ==
    \/ \E input \in CallPieceLists, convertUnits \in BOOLEAN :
            CallCalculate(input, convertUnits)
    \/ \E length \in SetterNumbers : CallSetStockLength(length)
    \/ \E lengths \in SetterArrays : CallSetStockLengthsArray(lengths)
    \/ \E length \in SetterNumbers : CallSetStockLengthsNumber(length)

\* ------------------------------------------- the stock-length controls

\* the user ticks or clears #useMultipleStockLengths
ToggleMultiple(stockLengthText) ==
    /\ useMultipleStockLengths' = ~useMultipleStockLengths
    /\ managerStockLengths' =
          ToggleStockLengths(managerStockLengths, ~useMultipleStockLengths,
                             stockLengthText)
    /\ UNCHANGED <<newStockLength, qvars, fvars, ivars>>

\* the user types into #newStockLength
TypeNewStockLength(text) ==
    /\ newStockLength' = text
    /\ UNCHANGED <<managerStockLengths, useMultipleStockLengths,
                   qvars, fvars, ivars>>

\* the add button, or Enter in #newStockLength
AddStockLength(unit) ==
    /\ LET r == addStockLength(managerStockLengths, newStockLength, unit)
       IN  /\ managerStockLengths' = r.stockLengths
           /\ newStockLength' = r.value
    /\ UNCHANGED <<useMultipleStockLengths, qvars, fvars, ivars>>

\* the remove button of a listed length
RemoveStockLength(length) ==
    /\ Includes(managerStockLengths, length)
    /\ managerStockLengths' = removeStockLength(managerStockLengths, length)
    /\ UNCHANGED <<useMultipleStockLengths, newStockLength, qvars, fvars, ivars>>

ControlsNext ==
    \/ \E text \in StockLengthTexts : ToggleMultiple(text)
    \/ \E text \in NewLengthTexts : TypeNewStockLength(text)
    \/ \E unit \in LengthUnits : AddStockLength(unit)
    \/ \E i \in 1..Len(managerStockLengths) :
            RemoveStockLength(managerStockLengths[i])

\* ------------------------------------------------------ specifications

\* the two packers, one call at a time
Next == QNext \/ SolveNext

Spec == Init /\ [][Next]_vars

\* the shared CuttingPlan instance under any sequence of calls
SpecInstance == Init /\ [][InstanceNext]_vars

\* the stock-length controls of the QuotationManager under any sequence of
\* user actions
SpecControls == Init /\ [][ControlsNext]_vars

\* ======================================================================
\*  Properties
\* ======================================================================

\* every bar the QuotationManager packer holds, sealed or being filled
QBarsInHand ==
    {stockPieces[i] : i \in DOMAIN stockPieces}
        \cup (IF qpc = "fill" THEN {stockPiece} ELSE {})

\* every bar the CuttingPlan packer holds, pushed or being filled
BarsInHand ==
    {bars[i] : i \in DOMAIN bars} \cup (IF cpc = "fill" THEN {stock} ELSE {})

\* C1: conservation of bar length.  Every bar of the kerf-aware packer
\* satisfies used + waste + 5 * cuts = length (remaining stands for waste
\* while the bar is open); every bar of the CuttingPlan packer satisfies
\* sum of piece sizes + remaining = stockLength.
C1_Conservation ==
    /\ \A i \in DOMAIN stockPieces :
          stockPieces[i].used + stockPieces[i].waste
              + KerfMm * Len(stockPieces[i].cuts) = stockPieces[i].length
    /\ \A b \in QBarsInHand :
          /\ b.used = SumSeq(Sizes(b.cuts))
          /\ b.used + b.remaining + KerfMm * Len(b.cuts) = b.length
    /\ \A b \in BarsInHand :
          SumSeq(Sizes(b.pieces)) + b.remaining = b.stockLength

\* a returned kerf-aware plan of several bars, one of them with several cuts
C1_Witness ==
    /\ qpc = "returned"
    /\ Len(stockPieces) >= 2
    /\ \E i \in DOMAIN stockPieces : Len(stockPieces[i].cuts) >= 2
    /\ \A i \in DOMAIN stockPieces : stockPieces[i].waste > 0

\* C2: no bar is ever overdrawn.  In every state of both packers, during
\* filling and after sealing, remaining capacity and waste are >= 0.
C2_NeverOverdrawn ==
    /\ \A b \in QBarsInHand : b.remaining >= 0
    /\ \A i \in DOMAIN stockPieces : stockPieces[i].waste >= 0
    /\ \A b \in BarsInHand : b.remaining >= 0

\* a bar of the kerf-aware packer that is full up to less than one more
\* piece plus kerf while pieces are still waiting
C2_Witness ==
    /\ qpc = "fill"
    /\ Len(stockPiece.cuts) >= 1
    /\ allPieces # <<>>
    /\ \A i \in DOMAIN allPieces :
          /\ allPieces[i].size <= stockPiece.remaining + KerfMm
          /\ allPieces[i].size + KerfMm > stockPiece.remaining

\* C8: requirements = one requirement of 1500 x 4, stock [6000], kerf 5:
\* exactly two bars, three pieces with waste 1485 then one piece with
\* waste 4495, total waste 5980.
C8_IsScenario ==
    /\ Len(requirements) = 1
    /\ requirements[1].sizeInMm = 1500
    /\ requirements[1].quantity = 4
    /\ qArgStock = <<6000>>

C8_Scenario ==
    (C8_IsScenario /\ qpc = "returned") =>
        /\ Len(stockPieces) = 2
        /\ Len(stockPieces[1].cuts) = 3
        /\ stockPieces[1].waste = 1485
        /\ Len(stockPieces[2].cuts) = 1
        /\ stockPieces[2].waste = 4495
        /\ QSumWaste(stockPieces) = 5980

C8_Witness == C8_IsScenario /\ qpc = "returned"

\* lengths in mm of the piece instances a call was asked for: every
\* well-formed entry of `pieces`, once per unit of quantity
RequestedLengths(arg) ==
    Concat([i \in DOMAIN arg.pieces |->
        IF InvalidPiece(arg.pieces[i]) THEN <<>>
        ELSE [j \in 1..arg.pieces[i].quantity |->
                IF arg.convertUnits
                THEN convertToMm(arg.pieces[i].size, arg.pieces[i].unit)
                ELSE arg.pieces[i].size]])

\* lengths in mm of the pieces a result places, bar after bar
PlacedLengths(result) ==
    Concat([k \in DOMAIN result.cuts |->
        [j \in DOMAIN result.cuts[k].pieces |-> result.cuts[k].pieces[j].sizeInMm]])

\* C3: completeness and no duplication.  When a plan call returns, the
\* placed pieces together with the reported unplaceable ones are exactly
\* the requested piece instances.
C3_EveryPieceAccounted ==
    callStatus = "returned" =>
        SameBag(PlacedLengths(callResult) \o UnplaceableOf(callResult),
                RequestedLengths(callArg))

\* the preconditions of plan(): positive lengths no longer than the
\* longest stock length, quantities of at least one
QPreconditions ==
    /\ requirements # <<>>
    /\ \A i \in DOMAIN requirements :
          /\ requirements[i].sizeInMm > 0
          /\ requirements[i].sizeInMm <= MaxOfSeq(stockLengths)
          /\ requirements[i].quantity >= 1

\* C4: QuotationManager.calculateCuttingPlan returns for every input that
\* meets the preconditions, a piece as long as the longest stock included.
\* A round of the outer loop that places nothing leaves allPieces as it
\* was and is repeated for ever, so the call returns exactly when every
\* round places a piece: it never seals more bars than there are pieces.
C4_ReturnsWithinInputSize ==
    QPreconditions => Len(stockPieces) <= Len(QExpand(requirements))

\* C5: a piece longer than every stock option is not fatal.  When every
\* requirement is longer than every stock length, as in requirements =
\* [{6000, 1}] with stock [5000], the bar list stays empty.
C5_OversizeLeavesNoBar ==
    ( /\ qpc # "idle"
      /\ requirements # <<>>
      /\ \A i \in DOMAIN requirements :
            requirements[i].sizeInMm > MaxOfSeq(stockLengths) )
        => stockPieces = <<>>

\* C6: with two or more distinct stock lengths configured through
\* setStockLengths, calculateCuttingPlan returns whenever every piece is
\* no longer than the longest configured length.
C6_MultiLengthTerminates ==
    ( /\ callStatus \in {"returned", "hung"}
      /\ cuttingPlan.stockLength.arr
      /\ Cardinality({cuttingPlan.stockLength.vals[i] :
                        i \in DOMAIN cuttingPlan.stockLength.vals}) >= 2
      /\ \A i \in DOMAIN RequestedLengths(callArg) :
            RequestedLengths(callArg)[i] <= MaxOfSeq(cuttingPlan.stockLength.vals) )
        => callStatus = "returned"

\* C7: a result without bars has bars used 0, total waste 0 and waste
\* percentage 0, never NaN.
C7_NoBarsMeansZeroTotals ==
    (callStatus = "returned" /\ callResult.cuts = <<>>) =>
        /\ callResult.stockUsed = 0
        /\ callResult.totalWastage = 0
        /\ callResult.wastagePercentage = PctZero

\* C9: determinism.  Whatever calls the shared instance served before,
\* a call returns what the same call returns on an instance that has the
\* same stock length and has served no call yet.
C9_Deterministic ==
    callStatus = "returned" =>
        callResult =
            calculateCuttingPlan(
                [NewCuttingPlan(DefaultStockMm)
                    EXCEPT !.stockLength = cuttingPlan.stockLength],
                callArg.pieces, callArg.convertUnits).result

\* an empty call answered on an instance that still carries the
\* percentage of an earlier, non-empty call
C9_Witness ==
    /\ callStatus = "returned"
    /\ callArg.pieces = <<>>
    /\ callResult = EmptyPlan
    /\ cuttingPlan.wastagePercentage.kind = "num"
    /\ cuttingPlan.wastagePercentage.n > 0

\* C10: monotonicity.  Planning with one more stock length never yields a
\* larger total waste than planning with the given ones.
C10_MoreStockNeverMoreWaste ==
    (qpc = "returned" /\ qArgStock # <<>>) =>
        \A x \in StockVals :
            LET more == QCalculateCuttingPlan(requirements, Append(qArgStock, x))
            IN  more.returns =>
                    QSumWaste(more.stockPieces) <= QSumWaste(stockPieces)

\* C11: a requirement with a non-positive length or a quantity <= 0 makes
\* the plan call fail before any packing: whenever the argument of a call
\* holds such an entry, the call threw and produced no result.
C11_InvalidRequirementRejected ==
    (\E i \in DOMAIN callArg.pieces : InvalidPiece(callArg.pieces[i])) =>
        /\ callStatus = "threw"
        /\ callResult = NoResult

\* C12: the reported totals equal the per-bar values.  CuttingPlan:
\* stockUsed is the number of bars and totalWastage the sum of
\* stock.remaining; PDF export: totalStockPieces is the number of bars and
\* the totalWaste of a section the sum of stockPiece.waste of its plan.
C12_TotalsMatchBars ==
    /\ cpc = "returned" =>
          /\ solution.stockUsed = Len(bars)
          /\ solution.totalWastage =
                SumSeq([i \in DOMAIN bars |-> bars[i].remaining])
    /\ qpc = "returned" =>
          /\ QExportTotals(stockPieces).totalStockPieces = Len(stockPieces)
          /\ QExportTotals(stockPieces).totalWaste = QSumWaste(stockPieces)

\* First-Fit-Decreasing as the README names it: the items are taken in
\* the given order, each goes into the lowest-numbered bar whose remaining
\* capacity is at least its length plus kerf, a new bar is opened only
\* when none has room.
FFDPut(ffdBars, item, capacity, kerf) ==
    LET room == {k \in DOMAIN ffdBars :
                    ffdBars[k].remaining >= item.size + kerf}
    IN  IF room # {}
        THEN LET k == CHOOSE x \in room : \A y \in room : x <= y
             IN  [ffdBars EXCEPT ![k] =
                    [remaining |-> @.remaining - (item.size + kerf),
                     items |-> Append(@.items, item)]]
        ELSE Append(ffdBars,
                    [remaining |-> capacity - (item.size + kerf),
                     items |-> <<item>>])

RECURSIVE FFDPack(_, _, _, _)
FFDPack(items, capacity, kerf, ffdBars) ==
    IF items = <<>> THEN ffdBars
    ELSE FFDPack(Tail(items), capacity, kerf,
                 FFDPut(ffdBars, Head(items), capacity, kerf))

FirstFitDecreasing(instances, capacity, kerf) ==
    LET ffd == FFDPack(SortDesc(instances, Sizes(instances)), capacity, kerf, <<>>)
    IN  [k \in DOMAIN ffd |-> ffd[k].items]

\* the piece instances of the requirements in the caller's order
QInstances ==
    Concat([i \in DOMAIN requirements |-> ExpandReq(requirements[i])])

\* C13: for every input on which a planner returns, its bars are the bars
\* of First-Fit-Decreasing: the same pieces in the same bar, bar by bar
\* (kerf 5 at the largest stock length for QuotationManager, kerf 0 at the
\* trial's stock length for CuttingPlan).
C13_SameBarsAsFirstFitDecreasing ==
    /\ qpc = "returned" =>
          [k \in DOMAIN stockPieces |-> stockPieces[k].cuts]
              = FirstFitDecreasing(QInstances, MaxOfSeq(stockLengths), KerfMm)
    /\ cpc = "returned" =>
          [k \in DOMAIN bars |-> bars[k].pieces]
              = FirstFitDecreasing(pieces, stockLength, 0)

\* a returned plan in which a shorter piece went into the first bar while
\* a longer one, later in the order, had to wait for the second
C13_Witness ==
    /\ qpc = "returned"
    /\ Len(stockPieces) >= 2
    /\ \E i \in DOMAIN stockPieces[1].cuts, j \in DOMAIN stockPieces[2].cuts :
          stockPieces[1].cuts[i].size < stockPieces[2].cuts[j].size

\* C14: a call without stock lengths plans exactly as a call with
\* stockLengths = [6000], and a CuttingPlan constructed without arguments
\* plans with the stock length 6000.
C14_DefaultStockLength ==
    /\ (qpc # "idle" /\ qArgStock = <<>>) => stockLengths = <<6000>>
    /\ (qpc = "returned" /\ qArgStock = <<>>) =>
          LET given == QCalculateCuttingPlan(requirements, <<6000>>)
          IN  given.returns /\ given.stockPieces = stockPieces
    /\ callStatus = "none" =>
          /\ cuttingPlan.stockLength = NumLength(6000)
          /\ TrialLengths(cuttingPlan.stockLength) = <<6000>>

\* a call without stock lengths that returned a plan of several bars
C14_Witness ==
    /\ qpc = "returned"
    /\ qArgStock = <<>>
    /\ Len(stockPieces) >= 2
    /\ callStatus = "none"

\* the distinct values of a list, each at its first position
RECURSIVE DistinctValues(_)
DistinctValues(s) ==
    IF s = <<>> THEN <<>>
    ELSE LET front == DistinctValues(SubSeq(s, 1, Len(s) - 1))
             last == s[Len(s)]
         IN  IF \E i \in DOMAIN front : front[i] = last THEN front
             ELSE Append(front, last)

\* C15: a stock-length list with repeated values plans as the list of its
\* distinct values: a call on an instance configured with a list ends as
\* the same call on an instance configured with the distinct values.
C15_DuplicateLengthsCollapse ==
    (callStatus \in {"returned", "hung"} /\ cuttingPlan.stockLength.arr) =>
        LET collapsed ==
                calculateCuttingPlan(
                    [NewCuttingPlan(DefaultStockMm) EXCEPT !.stockLength =
                        ArrLength(DistinctValues(cuttingPlan.stockLength.vals))],
                    callArg.pieces, callArg.convertUnits)
        IN  /\ collapsed.returns = (callStatus = "returned")
            /\ collapsed.returns => collapsed.result = callResult

IsPrefix(a, b) == Len(a) <= Len(b) /\ SubSeq(b, 1, Len(a)) = a

\* C16: bar contents are in placement order and bars in opening order.
\* Every placement appends the placed piece to the end of the open bar,
\* every sealed bar is appended unchanged to the end of the bar list,
\* nothing else touches either, and CuttingPlan.cuts numbers the bars
\* 1, 2, ... in that order with their pieces in that order.
C16_PlacementOrderKept ==
    [][ /\ (qpc = "fill" /\ qpc' = "fill") =>
              /\ \E i \in DOMAIN allPieces :
                    /\ stockPiece'.cuts = Append(stockPiece.cuts, allPieces[i])
                    /\ allPieces' = RemoveAt(allPieces, i)
              /\ stockPieces' = stockPieces
        /\ (qpc = "fill" /\ qpc' = "loop") =>
              /\ Len(stockPieces') = Len(stockPieces) + 1
              /\ IsPrefix(stockPieces, stockPieces')
              /\ stockPieces'[Len(stockPieces')].cuts = stockPiece.cuts
        /\ qpc = "loop" => stockPieces' = stockPieces
        /\ (cpc = "fill" /\ cpc' = "fill") =>
              /\ \E i \in DOMAIN remainingPieces :
                    /\ stock'.pieces = Append(stock.pieces, remainingPieces[i])
                    /\ remainingPieces' = RemoveAt(remainingPieces, i)
              /\ bars' = bars
        /\ (cpc = "fill" /\ cpc' = "loop") => bars' = Append(bars, stock)
        /\ cpc = "loop" => bars' = bars
        /\ cpc' = "returned" =>
              LET shown == FormatCuts([NewCuttingPlan(DefaultStockMm) EXCEPT
                              !.stockPieces = solution'.stockPieces]).cuts
              IN  /\ Len(shown) = Len(bars')
                  /\ \A k \in DOMAIN shown :
                        /\ shown[k].stockNumber = k
                        /\ [j \in DOMAIN shown[k].pieces |->
                                shown[k].pieces[j].sizeInMm]
                              = Sizes(bars'[k].pieces) ]_vars

\* a returned plan whose bars differ and whose first bar holds a longer
\* cut followed by a shorter one
C16_Witness ==
    /\ qpc = "returned"
    /\ Len(stockPieces) >= 2
    /\ stockPieces[1].cuts # stockPieces[2].cuts
    /\ Len(stockPieces[1].cuts) >= 2
    /\ stockPieces[1].cuts[1].size > stockPieces[1].cuts[2].size

\* C17: every bar of QuotationManager.calculateCuttingPlan, sealed or
\* being filled, has as length one of the stock lengths, and no stock
\* length is larger.
C17_BarsOpenAtLargestStock ==
    \A b \in QBarsInHand :
        /\ \E j \in DOMAIN stockLengths : b.length = stockLengths[j]
        /\ \A j \in DOMAIN stockLengths : stockLengths[j] <= b.length

\* a plan over a shorter and a longer stock length whose last bar carries
\* a load that the shorter length would have held
C17_Witness ==
    /\ qpc = "returned"
    /\ Len(qArgStock) = 2
    /\ qArgStock[1] < qArgStock[2]
    /\ Len(stockPieces) >= 2
    /\ LET last == stockPieces[Len(stockPieces)]
       IN  last.used + KerfMm * Len(last.cuts) <= qArgStock[1]

\* the elements of s whose size is z, in the order of s
RECURSIVE OfSize(_, _)
OfSize(s, z) ==
    IF s = <<>> THEN <<>>
    ELSE (IF Head(s).size = z THEN <<Head(s)>> ELSE <<>>) \o OfSize(Tail(s), z)

NonIncreasing(s) ==
    \A i \in DOMAIN s : \A j \in DOMAIN s : i < j => s[i].size >= s[j].size

\* the pieces of the running QuotationManager call in the order in which
\* they are taken: placed ones bar after bar, then the waiting ones
QConsidered ==
    Concat([k \in DOMAIN stockPieces |-> stockPieces[k].cuts])
        \o (IF qpc = "fill" THEN stockPiece.cuts ELSE <<>>) \o allPieces

\* the same for the running CuttingPlan trial
Considered ==
    Concat([k \in DOMAIN bars |-> bars[k].pieces])
        \o (IF cpc = "fill" THEN stock.pieces ELSE <<>>) \o remainingPieces

\* a CuttingPlan piece without its length in mm
Origin(p) ==
    [originalSize |-> p.originalSize, originalUnit |-> p.originalUnit, id |-> p.id]

\* the instances of the well-formed entries of the `pieces` argument in
\* the caller's order
InputOrigins ==
    Concat([i \in DOMAIN inputPieces |->
        IF InvalidPiece(inputPieces[i]) THEN <<>>
        ELSE [j \in 1..inputPieces[i].quantity |->
                [originalSize |-> inputPieces[i].size,
                 originalUnit |-> inputPieces[i].unit,
                 id |-> <<IF inputPieces[i].id = "" THEN "piece"
                          ELSE inputPieces[i].id, j>>]]])

RECURSIVE Among(_, _)
Among(s, S) ==
    IF s = <<>> THEN <<>>
    ELSE (IF Head(s) \in S THEN <<Head(s)>> ELSE <<>>) \o Among(Tail(s), S)

\* C18: pieces are taken in non-increasing order of length, and pieces of
\* equal length in the order of the requirements they came from: the
\* waiting pieces are always sorted, and the pieces of any one length are
\* taken (placed, then waiting) in the caller's order.
C18_LongestFirstTiesInInputOrder ==
    /\ qpc # "idle" =>
          /\ NonIncreasing(allPieces)
          /\ \A z \in {QInstances[i].size : i \in DOMAIN QInstances} :
                OfSize(QConsidered, z) = OfSize(QInstances, z)
    /\ cpc # "idle" =>
          /\ NonIncreasing(pieces)
          /\ NonIncreasing(remainingPieces)
          /\ \A z \in {pieces[i].size : i \in DOMAIN pieces} :
                LET ofZ == OfSize(Considered, z)
                    origins == {Origin(pieces[i]) :
                                  i \in {x \in DOMAIN pieces : pieces[x].size = z}}
                IN  [i \in DOMAIN ofZ |-> Origin(ofZ[i])]
                        = Among(InputOrigins, origins)

\* a returned plan for two requirements of the same length
C18_Witness ==
    /\ qpc = "returned"
    /\ Len(requirements) = 2
    /\ requirements[1].sizeInMm = requirements[2].sizeInMm
    /\ requirements[1].quantity >= 1
    /\ requirements[2].quantity >= 1
    /\ Len(stockPieces) >= 1

\* s without the first occurrence of x, and without one occurrence of
\* each element of xs
RECURSIVE WithoutFirst(_, _)
WithoutFirst(s, x) ==
    IF s = <<>> THEN <<>>
    ELSE IF Head(s) = x THEN Tail(s)
    ELSE <<Head(s)>> \o WithoutFirst(Tail(s), x)

RECURSIVE WithoutAll(_, _)
WithoutAll(s, xs) ==
    IF xs = <<>> THEN s ELSE WithoutAll(WithoutFirst(s, Head(xs)), Tail(xs))

\* allPieces as it was when the bar being filled was opened: the sorted
\* pieces of the call less those in sealed bars
QPoolAtOpen ==
    WithoutAll(QExpand(requirements),
               Concat([k \in DOMAIN stockPieces |-> stockPieces[k].cuts]))

\* one pass over pool in its order: a piece is placed when its length + 5
\* fits in what is left of the bar at the moment it is reached
RECURSIVE SinglePass(_, _, _, _)
SinglePass(pool, remaining, placed, left) ==
    IF pool = <<>> THEN [cuts |-> placed, allPieces |-> left]
    ELSE IF Head(pool).size + 5 <= remaining
    THEN SinglePass(Tail(pool), remaining - (Head(pool).size + 5),
                    Append(placed, Head(pool)), left)
    ELSE SinglePass(Tail(pool), remaining, placed, Append(left, Head(pool)))

\* C19: filling a bar with a scan that restarts after each placement
\* places the pieces of one single pass over the pieces waiting when the
\* bar was opened, in the same order: the cuts made so far are always a
\* prefix of the single pass, and when nothing more fits the cuts and the
\* pieces left over are those of the single pass.
C19_RestartScanIsSinglePass ==
    /\ qpc = "loop" => allPieces = QPoolAtOpen
    /\ qpc = "fill" =>
          LET once == SinglePass(QPoolAtOpen, stockPiece.length, <<>>, <<>>)
          IN  /\ IsPrefix(stockPiece.cuts, once.cuts)
              /\ QFirstFit(allPieces, stockPiece) = 0 =>
                    /\ stockPiece.cuts = once.cuts
                    /\ allPieces = once.allPieces

\* a bar about to be sealed that took a piece lying behind one it had to
\* pass over
C19_Witness ==
    /\ qpc = "fill"
    /\ QFirstFit(allPieces, stockPiece) = 0
    /\ Len(stockPiece.cuts) >= 2
    /\ \E i \in DOMAIN allPieces :
          allPieces[i].size > stockPiece.cuts[Len(stockPiece.cuts)].size

C21_InputsAndSealedBarsUntouched ==
    [][ /\ qpc # "idle" =>
              /\ requirements' = requirements
              /\ qArgStock' = qArgStock
              /\ IsPrefix(stockPieces, stockPieces')
        /\ cpc # "idle" =>
              /\ inputPieces' = inputPieces
              /\ pieces' = pieces
              /\ IsPrefix(bars, bars')
        /\ (cpc = "idle" /\ cpc' = "loop") => remainingPieces' = pieces' ]_vars

\* a returned plan of several bars for a requirement list that the caller
\* passed shortest first
C21_Witness ==
    /\ qpc = "returned"
    /\ Len(stockPieces) >= 2
    /\ Len(requirements) >= 2
    /\ requirements[1].sizeInMm < requirements[2].sizeInMm
    /\ requirements[1].quantity >= 1
    /\ requirements[2].quantity >= 1

\* the entries of a list that are > 0, in the order of the list
RECURSIVE PositiveEntries(_)
PositiveEntries(l) ==
    IF l = <<>> THEN <<>>
    ELSE LET front == PositiveEntries(SubSeq(l, 1, Len(l) - 1))
         IN  IF l[Len(l)] > 0 THEN Append(front, l[Len(l)]) ELSE front

\* C22: on every instance, setStockLength and setStockLengths with a
\* number <= 0, and setStockLengths with a list without a positive entry,
\* throw and leave the instance as it is; setStockLengths with a list that
\* has a positive entry stores its positive entries in their order.
C22_SettersRejectOrStore ==
    /\ \A n \in SetterNumbers :
          n <= 0 =>
              /\ setStockLength(cuttingPlan, n).throws
              /\ setStockLength(cuttingPlan, n).self = cuttingPlan
              /\ setStockLengthsNumber(cuttingPlan, n).throws
              /\ setStockLengthsNumber(cuttingPlan, n).self = cuttingPlan
    /\ \A l \in SetterArrays :
          LET r == setStockLengthsArray(cuttingPlan, l)
          IN  IF PositiveEntries(l) = <<>>
              THEN r.throws /\ r.self = cuttingPlan
              ELSE /\ ~r.throws
                   /\ r.self.stockLength = ArrLength(PositiveEntries(l))
    /\ callStatus = "set" =>
          \A i \in DOMAIN cuttingPlan.stockLength.vals :
              cuttingPlan.stockLength.vals[i] > 0

\* a setter that threw on an instance configured with several lengths,
\* which are still there
C22_Witness ==
    /\ callStatus = "threw"
    /\ cuttingPlan.stockLength.arr
    /\ Len(cuttingPlan.stockLength.vals) >= 2

\* a <= b on numbers; every comparison with NaN is false
PctLeq(a, b) ==
    /\ a.kind = "num"
    /\ b.kind = "num"
    /\ a.n * b.d <= b.n * a.d

\* C23: with several stock lengths configured, a returned plan is the
\* trial with the lowest waste percentage: its percentage is <= that of
\* every trial, its total waste is the smallest, and all its bars have
\* one stock length.
C23_LowestWastePercentageChosen ==
    ( /\ callStatus = "returned"
      /\ callArg.pieces # <<>>
      /\ cuttingPlan.stockLength.arr
      /\ Len(cuttingPlan.stockLength.vals) >= 2 ) =>
        LET sols == Solutions(ExpandPieces(callArg.pieces, cuttingPlan.stockLength,
                                           callArg.convertUnits),
                              cuttingPlan.stockLength)
        IN  /\ \A k \in DOMAIN sols :
                  /\ PctLeq(callResult.wastagePercentage, sols[k].wastagePercentage)
                  /\ callResult.totalWastage <= sols[k].totalWastage
            /\ \A i \in DOMAIN callResult.cuts : \A j \in DOMAIN callResult.cuts :
                  callResult.cuts[i].stockLength = callResult.cuts[j].stockLength

\* a packer that fills every bar with findBestFit alone; it stops at a
\* fresh bar that takes no piece
RECURSIVE BestFitOnlyFill(_, _)
BestFitOnlyFill(st, waiting) ==
    LET i == findBestFit(waiting, st.remaining)
    IN  IF i = 0 THEN [stock |-> st, remaining |-> waiting]
        ELSE BestFitOnlyFill(PutPiece(st, waiting[i]), RemoveAt(waiting, i))

RECURSIVE BestFitOnlyPack(_, _, _)
BestFitOnlyPack(waiting, len, done) ==
    IF waiting = <<>> THEN done
    ELSE LET f == BestFitOnlyFill(NewStock(len), waiting)
         IN  IF f.stock.pieces = <<>> THEN done
             ELSE BestFitOnlyPack(f.remaining, len, Append(done, f.stock))

C25_NothingLaterFitsEarlierBar ==
    /\ \A i \in DOMAIN stockPieces :
          /\ \A j \in DOMAIN stockPieces : i < j =>
                \A c \in DOMAIN stockPieces[j].cuts :
                    stockPieces[j].cuts[c].size + 5 > stockPieces[i].waste
          /\ \A c \in DOMAIN stockPiece.cuts :
                stockPiece.cuts[c].size + 5 > stockPieces[i].waste
          /\ \A c \in DOMAIN allPieces :
                allPieces[c].size + 5 > stockPieces[i].waste
    /\ \A i \in DOMAIN bars :
          /\ \A j \in DOMAIN bars : i < j =>
                \A c \in DOMAIN bars[j].pieces :
                    bars[j].pieces[c].size > bars[i].remaining
          /\ \A c \in DOMAIN stock.pieces :
                stock.pieces[c].size > bars[i].remaining
          /\ \A c \in DOMAIN remainingPieces :
                remainingPieces[c].size > bars[i].remaining

\* a returned plan whose first bar is left with more than a third of its
\* length and whose second bar holds a piece longer than that
C25_Witness ==
    /\ qpc = "returned"
    /\ Len(stockPieces) >= 2
    /\ 3 * stockPieces[1].waste > stockPieces[1].length
    /\ \E c \in DOMAIN stockPieces[2].cuts :
          stockPieces[2].cuts[c].size > stockPieces[1].waste

\* C26: within every bar, sealed or being filled, each piece is no longer
\* than the piece placed before it.
C26_BarContentsNonIncreasing ==
    /\ \A b \in QBarsInHand : NonIncreasing(b.cuts)
    /\ \A b \in BarsInHand : NonIncreasing(b.pieces)

\* a returned trial with a bar of three pieces, the first longer than the
\* last
C26_Witness ==
    /\ cpc = "returned"
    /\ \E k \in DOMAIN bars :
          /\ Len(bars[k].pieces) >= 3
          /\ bars[k].pieces[1].size > bars[k].pieces[Len(bars[k].pieces)].size

\* C27: no empty bars.  In every state every bar in a bar list holds at
\* least one piece, and there are never more bars than piece instances.
C27_NoEmptyBars ==
    /\ \A i \in DOMAIN stockPieces : stockPieces[i].cuts # <<>>
    /\ Len(stockPieces) <= Len(QInstances)
    /\ \A i \in DOMAIN bars : bars[i].pieces # <<>>
    /\ Len(bars) <= Len(pieces)

\* C28: after every call of calculateCuttingPlan the instance fields cuts,
\* stockUsed, totalWastage and wastagePercentage equal the fields of the
\* result the call returned.
C28_InstanceMirrorsResult ==
    callStatus = "returned" => PlanResult(cuttingPlan) = callResult

\* C29: after any sequence of toggles, additions and removals the
\* stockLengths list holds no value twice, and adding a length that is
\* already listed leaves the list as it is.
C29_NoDuplicateStockLengths ==
    /\ \A i \in DOMAIN managerStockLengths : \A j \in DOMAIN managerStockLengths :
          i # j => managerStockLengths[i] # managerStockLengths[j]
    /\ \A unit \in LengthUnits :
          LET length == parseFloat(newStockLength)
          IN  ( /\ ~InvalidLength(length)
                /\ Includes(managerStockLengths, LengthInMm(length.n, unit)) )
                  => addStockLength(managerStockLengths, newStockLength,
                                    unit).stockLengths = managerStockLengths

\* a list of several lengths while the field holds one of them again
C29_Witness ==
    /\ Len(managerStockLengths) >= 2
    /\ ~InvalidLength(parseFloat(newStockLength))
    /\ \E unit \in LengthUnits :
          Includes(managerStockLengths,
                   LengthInMm(parseFloat(newStockLength).n, unit))

\* C30: after any sequence of toggles, additions and removals, whatever
\* text the fields hold, every entry of the stockLengths that exportToPDF
\* hands to calculateCuttingPlan is a positive whole number.
C30_HandedLengthsPositive ==
    \A text \in StockLengthTexts :
        LET handed == ExportStockLengths(useMultipleStockLengths,
                                         managerStockLengths, text)
        IN  \A i \in DOMAIN handed : handed[i].kind = "num" /\ handed[i].n > 0

====
